---- MODULE Spec2Model ----
(***************************************************************************)
(* A model of src/i.py: rendering of a raster image as Braille glyphs with *)
(* 256-colour ANSI styling.  A character is its code point (ord), a text   *)
(* the sequence of the code points of its characters, so that numerals and *)
(* escape sequences are read and written digit by digit.                   *)
(***************************************************************************)
EXTENDS Integers, Sequences, FiniteSets, TLC

VARIABLES
    pc,            \* position in the program
    args,          \* arguments of the pure function under call
    ret,           \* its result
    lines,         \* result.stdout.split('\n')
    line_no,       \* index of the next line of the parse loop
    invert,        \* the invert flag
    use_bg,        \* the background-mode flag
    pixels,        \* the dict (x, y) -> (r, g, b)
    max_x, max_y,  \* the bounding extent kept by the parse loop
    char_width, char_height,
    char_x, char_y,
    line_chars, line_colors,
    color_cache,   \* the dict (avg_r, avg_g, avg_b) -> colour index
    output_line,   \* the line under construction, as code points
    last_color,
    cell_no,       \* position of the zip(line_chars, line_colors) loop
    printed        \* the lines written to standard output so far

vars == <<pc, args, ret, lines, line_no, invert, use_bg, pixels, max_x, max_y,
          char_width, char_height, char_x, char_y, line_chars, line_colors,
          color_cache, output_line, last_color, cell_no, printed>>

renderVars == <<lines, line_no, invert, use_bg, pixels, max_x, max_y,
                char_width, char_height, char_x, char_y, line_chars,
                line_colors, color_cache, output_line, last_color, cell_no,
                printed>>

----------------------------------------------------------------------------
(* Bounds of the model.                                                    *)

\* Largest channel value of an RGB sample.
MaxChannel == 255

\* Longest row of styled cells given to the encoder on its own.
MaxRowLen == 4

\* Longest pixel-data stream.
MaxLines == 3

\* Most samples of a pixel mapping given to the compositor on its own.
MaxPixels == 5

----------------------------------------------------------------------------
(* Python values and arithmetic.                                           *)

\* Python's None where an integer may stand.
None == -1

\* None as an element of a block of samples.
Absent == << >>

EmptyDict == [k \in {} |-> 0]

DictSet(d, k, v) == [j \in (DOMAIN d) \cup {k} |-> IF j = k THEN v ELSE d[j]]

Max(a, b) == IF a >= b THEN a ELSE b

Min(a, b) == IF a <= b THEN a ELSE b

Pow2(n) == 2 ^ n

\* round(n / d) for d > 0: to nearest, a tie to the even neighbour.
PyRound(n, d) ==
    LET q == n \div d
        m == n % d
    IN  IF 2 * m > d \/ (2 * m = d /\ q % 2 = 1) THEN q + 1 ELSE q

\* int(n / d) for d > 0: towards zero.
PyTrunc(n, d) == IF n >= 0 THEN n \div d ELSE -((-n) \div d)

----------------------------------------------------------------------------
(* rgb_to_ansi256                                                          *)

GrayLow == 8

GrayHigh == 248

GraySpan == 247

GraySteps == 24

GrayBase == 232

CubeStep == 51

CubeBase == 16

CubeWhite == 231

\* max(0, min(5, round(c / 51.0)))
CubeLevel(c) == Max(0, Min(5, PyRound(c, CubeStep)))

\* A cube that quantizes by truncation instead of rounding.
rgb_to_ansi256_trunc(r, g, b) ==
    IF r = g /\ g = b
    THEN IF r < GrayLow THEN CubeBase
         ELSE IF r > GrayHigh THEN CubeWhite
         ELSE PyRound((r - GrayLow) * GraySteps, GraySpan) + GrayBase
    ELSE CubeBase + 36 * Max(0, Min(5, r \div CubeStep))
                  + 6 * Max(0, Min(5, g \div CubeStep))
                  + Max(0, Min(5, b \div CubeStep))

\* A grey ramp without the special case for near-white.
rgb_to_ansi256_noWhite(r, g, b) ==
    IF r = g /\ g = b
    THEN IF r < GrayLow THEN CubeBase
         ELSE PyRound((r - GrayLow) * GraySteps, GraySpan) + GrayBase
    ELSE CubeBase + 36 * CubeLevel(r) + 6 * CubeLevel(g) + CubeLevel(b)

rgb_to_ansi256(r, g, b) ==
    IF r = g /\ g = b
    THEN IF r < GrayLow THEN CubeBase
         ELSE IF r > GrayHigh THEN CubeWhite
         ELSE PyRound((r - GrayLow) * GraySteps, GraySpan) + GrayBase
    ELSE CubeBase + 36 * CubeLevel(r) + 6 * CubeLevel(g) + CubeLevel(b)

----------------------------------------------------------------------------
(* pixel_to_braille                                                        *)

BrailleBase == 10240

Threshold == 128

positions_identity == <<0, 1, 2, 3, 4, 5, 6, 7>>

positions == <<0, 3, 1, 4, 2, 5, 6, 7>>

\* The arithmetic of line 59 is that of IEEE 754 binary64: each product and
\* each sum is the exact result rounded to 53 significant bits, ties to the
\* even mantissa.  A double is written [sign, man, exp], its value
\* sign * man * 2^exp with man a natural number of whatever length, held as
\* the sequence of its digits in base 2^15, the lowest first, the highest
\* not zero (zero is the empty sequence).  The channels of a colour are
\* integers below 2^31 in size: float(n) is n, and no result leaves the
\* range of binary64.
LimbBits == 15

LimbBase == 32768

MantissaBits == 53

\* The natural number n.
RECURSIVE BigOf(_)
BigOf(n) == IF n = 0 THEN << >> ELSE <<n % LimbBase>> \o BigOf(n \div LimbBase)

RECURSIVE Trim(_)
Trim(a) ==
    IF a = << >> \/ a[Len(a)] # 0 THEN a ELSE Trim(SubSeq(a, 1, Len(a) - 1))

Limb(a, i) == IF i <= Len(a) THEN a[i] ELSE 0

\* a + b from digit i on, with the carry of the digits before.
RECURSIVE BigAddFrom(_, _, _, _)
BigAddFrom(a, b, i, carry) ==
    IF i > Len(a) /\ i > Len(b)
    THEN IF carry = 0 THEN << >> ELSE <<carry>>
    ELSE <<(Limb(a, i) + Limb(b, i) + carry) % LimbBase>>
            \o BigAddFrom(a, b, i + 1,
                          (Limb(a, i) + Limb(b, i) + carry) \div LimbBase)

BigAdd(a, b) == Trim(BigAddFrom(a, b, 1, 0))

\* a - b from digit i on for a >= b, with the borrow of the digits before.
RECURSIVE BigSubFrom(_, _, _, _)
BigSubFrom(a, b, i, borrow) ==
    IF i > Len(a) THEN << >>
    ELSE <<(a[i] - Limb(b, i) - borrow + LimbBase) % LimbBase>>
            \o BigSubFrom(a, b, i + 1,
                          IF a[i] - Limb(b, i) - borrow < 0 THEN 1 ELSE 0)

BigSub(a, b) == Trim(BigSubFrom(a, b, 1, 0))

\* The sign of a - b, read from digit i down, for a and b of one length.
RECURSIVE BigCmpFrom(_, _, _)
BigCmpFrom(a, b, i) ==
    IF i = 0 THEN 0
    ELSE IF a[i] > b[i] THEN 1
    ELSE IF a[i] < b[i] THEN -1
    ELSE BigCmpFrom(a, b, i - 1)

BigCmp(a, b) ==
    IF Len(a) > Len(b) THEN 1
    ELSE IF Len(a) < Len(b) THEN -1
    ELSE BigCmpFrom(a, b, Len(a))

\* a * d for one digit d, from digit i on.
RECURSIVE BigMulDigitFrom(_, _, _, _)
BigMulDigitFrom(a, d, i, carry) ==
    IF i > Len(a)
    THEN IF carry = 0 THEN << >> ELSE <<carry>>
    ELSE <<(a[i] * d + carry) % LimbBase>>
            \o BigMulDigitFrom(a, d, i + 1, (a[i] * d + carry) \div LimbBase)

BigMulDigit(a, d) == Trim(BigMulDigitFrom(a, d, 1, 0))

\* a * 2^(LimbBits * n)
ShiftLimbs(a, n) == IF a = << >> THEN a ELSE [i \in 1..n |-> 0] \o a

RECURSIVE BigMul(_, _)
BigMul(a, b) ==
    IF b = << >> THEN << >>
    ELSE IF Len(b) = 1 THEN BigMulDigit(a, b[1])
    ELSE BigAdd(BigMulDigit(a, b[1]), ShiftLimbs(BigMul(a, Tail(b)), 1))

\* The number of bits of a digit, and of a number.
RECURSIVE DigitBits(_)
DigitBits(d) == IF d = 0 THEN 0 ELSE 1 + DigitBits(d \div 2)

BitLen(a) ==
    IF a = << >> THEN 0 ELSE LimbBits * (Len(a) - 1) + DigitBits(a[Len(a)])

\* a * 2^k
ShiftLeft(a, k) ==
    IF k = 0 THEN a
    ELSE ShiftLimbs(BigMulDigit(a, Pow2(k % LimbBits)), k \div LimbBits)

\* a \div 2^k for k below LimbBits.
ShiftRightBits(a, k) ==
    Trim([i \in 1..Len(a) |->
            (a[i] \div Pow2(k)) + (Limb(a, i + 1) % Pow2(k)) * Pow2(LimbBits - k)])

\* a \div 2^k
ShiftRight(a, k) ==
    ShiftRightBits(SubSeq(a, k \div LimbBits + 1, Len(a)), k % LimbBits)

\* Bit j of a, the lowest being bit 0.
TestBit(a, j) ==
    (Limb(a, j \div LimbBits + 1) \div Pow2(j % LimbBits)) % 2 = 1

\* Some bit of a below bit j is set.
AnyBitBelow(a, j) ==
    \/ \E i \in 1..(j \div LimbBits) : Limb(a, i) # 0
    \/ Limb(a, j \div LimbBits + 1) % Pow2(j % LimbBits) # 0

\* a / 2^k for k >= 1, rounded to the nearest, a tie to the even: the
\* quotient, and one more when the remainder is above the half of 2^k, or
\* is the half and the quotient is odd.
RoundHalfEven(a, k) ==
    IF TestBit(a, k - 1) /\ (AnyBitBelow(a, k - 1) \/ TestBit(a, k))
    THEN BigAdd(ShiftRight(a, k), <<1>>)
    ELSE ShiftRight(a, k)

\* sign * man * 2^exp rounded to a double, for man of n bits.
RoundBits(sign, man, exp, n) ==
    IF n <= MantissaBits
    THEN [sign |-> sign, man |-> man, exp |-> exp]
    ELSE [sign |-> sign, man |-> RoundHalfEven(man, n - MantissaBits),
          exp |-> exp + n - MantissaBits]

\* The number f rounded to a double.
RoundDouble(f) == RoundBits(f.sign, f.man, f.exp, BitLen(f.man))

\* float(n) for an integer n below 2^31 in size.
FloatOfInt(n) ==
    [sign |-> IF n < 0 THEN -1 ELSE 1,
     man |-> BigOf(IF n < 0 THEN -n ELSE n),
     exp |-> 0]

\* x * y
FloatMul(x, y) ==
    RoundDouble([sign |-> x.sign * y.sign, man |-> BigMul(x.man, y.man),
                 exp |-> x.exp + y.exp])

\* The sum of sx * a * 2^e and sy * b * 2^e, not rounded.
SignedSum(sx, a, sy, b, e) ==
    IF sx = sy THEN [sign |-> sx, man |-> BigAdd(a, b), exp |-> e]
    ELSE IF BigCmp(a, b) >= 0 THEN [sign |-> sx, man |-> BigSub(a, b), exp |-> e]
    ELSE [sign |-> sy, man |-> BigSub(b, a), exp |-> e]

\* The sum of the doubles x and y, not rounded.
ExactSum(x, y) ==
    SignedSum(x.sign, ShiftLeft(x.man, x.exp - Min(x.exp, y.exp)),
              y.sign, ShiftLeft(y.man, y.exp - Min(x.exp, y.exp)),
              Min(x.exp, y.exp))

\* x + y
FloatAdd(x, y) == RoundDouble(ExactSum(x, y))

\* x > y: the difference is above zero.
FloatGreater(x, y) ==
    /\ ExactSum(x, [sign |-> -y.sign, man |-> y.man, exp |-> y.exp]).sign = 1
    /\ ExactSum(x, [sign |-> -y.sign, man |-> y.man, exp |-> y.exp]).man # << >>

\* The doubles the literals 0.2126, 0.7152 and 0.0722 of line 59 denote:
\* 0x1.b367a0f9096bcp-3, 0x1.6e2eb1c432ca5p-1 and 0x1.27bb2fec56d5dp-4.
WeightRed == [sign |-> 1, man |-> <<5820, 7969, 23016, 217>>, exp |-> -55]

WeightGreen == [sign |-> 1, man |-> <<11429, 14470, 2988, 183>>, exp |-> -53]

WeightBlue == [sign |-> 1, man |-> <<27997, 32138, 28363, 147>>, exp |-> -56]

\* 0.2126 * r + 0.7152 * g + 0.0722 * b
brightness(r, g, b) ==
    FloatAdd(FloatAdd(FloatMul(WeightRed, FloatOfInt(r)),
                      FloatMul(WeightGreen, FloatOfInt(g))),
             FloatMul(WeightBlue, FloatOfInt(b)))

\* brightness > 128, line 60.
IsBright(c) == FloatGreater(brightness(c[1], c[2], c[3]), FloatOfInt(Threshold))

\* code | (1 << pos)
SetBit(code, pos) ==
    IF (code \div Pow2(pos)) % 2 = 1 THEN code ELSE code + Pow2(pos)

\* The loop over enumerate(positions), from index i (1-based) on.
RECURSIVE BrailleLoop(_, _, _)
BrailleLoop(blocks, i, code) ==
    IF i > Len(positions) THEN code
    ELSE IF i <= Len(blocks) /\ blocks[i] # Absent /\ Len(blocks[i]) = 3
                /\ IsBright(blocks[i])
         THEN BrailleLoop(blocks, i + 1, SetBit(code, positions[i]))
         ELSE BrailleLoop(blocks, i + 1, code)

pixel_to_braille(blocks, avg_color) ==
    IF blocks = << >> THEN BrailleBase
    ELSE BrailleBase + BrailleLoop(blocks, 1, 0)

----------------------------------------------------------------------------
(* The escape sequences: ansi256_fg, ansi256_bg, ansi_reset.               *)

ESC == 27

Space == 32

\* str(d) for one decimal digit d.
DigitChar(d) == 48 + d

\* f"{n}" for n >= 0: the decimal digits of n, as code points.
RECURSIVE PyStr(_)
PyStr(n) ==
    IF n < 10 THEN <<DigitChar(n)>>
    ELSE Append(PyStr(n \div 10), DigitChar(n % 10))

\* "\033[38;5;{color_index}m"
ansi256_fg(color_index) ==
    <<ESC, 91, 51, 56, 59, 53, 59>> \o PyStr(color_index) \o <<109>>

\* "\033[48;5;{color_index}m"
ansi256_bg(color_index) ==
    <<ESC, 91, 52, 56, 59, 53, 59>> \o PyStr(color_index) \o <<109>>

\* "\033[0m"
ansi_reset == <<ESC, 91, 48, 109>>

----------------------------------------------------------------------------
(* The texts display_image_braille prints beside the rows.                 *)

\* path.name of the image shown: "img.png"
ImageName ==
    <<105, 109, 103, 46, 112, 110, 103>>

\* "Original dimensions: 2x2", printed at line 89 when identify answers.
LineOriginal ==
    <<79, 114, 105, 103, 105, 110, 97, 108, 32, 100, 105, 109, 101, 110,
      115, 105, 111, 110, 115, 58, 32, 50, 120, 50>>

\* "Displaying image: "
TextDisplaying ==
    <<68, 105, 115, 112, 108, 97, 121, 105, 110, 103, 32, 105, 109, 97, 103,
      101, 58, 32>>

\* ") - Using Braille characters"
TextUsing ==
    <<41, 32, 45, 32, 85, 115, 105, 110, 103, 32, 66, 114, 97, 105, 108,
      108, 101, 32, 99, 104, 97, 114, 97, 99, 116, 101, 114, 115>>

\* "Character dimensions: "
TextDimensions ==
    <<67, 104, 97, 114, 97, 99, 116, 101, 114, 32, 100, 105, 109, 101, 110,
      115, 105, 111, 110, 115, 58, 32>>

\* "Error: Unable to parse pixel data"
TextNoPixels ==
    <<69, 114, 114, 111, 114, 58, 32, 85, 110, 97, 98, 108, 101, 32, 116,
      111, 32, 112, 97, 114, 115, 101, 32, 112, 105, 120, 101, 108, 32, 100,
      97, 116, 97>>

\* f"Error: {e}" for the OverflowError of int(float('inf')).
TextOverflow ==
    <<69, 114, 114, 111, 114, 58, 32, 99, 97, 110, 110, 111, 116, 32, 99,
      111, 110, 118, 101, 114, 116, 32, 102, 108, 111, 97, 116, 32, 105,
      110, 102, 105, 110, 105, 116, 121, 32, 116, 111, 32, 105, 110, 116,
      101, 103, 101, 114>>

\* "=" * min(80, width)
Rule(width) == [i \in 1..Min(80, width) |-> 61]

\* Lines 171-173 for the extent (mx, my): the three lines printed before
\* the rows.
HeaderLines(mx, my) ==
    <<TextDisplaying \o ImageName \o <<32, 40>> \o PyStr(mx + 1) \o <<120>>
          \o PyStr(my + 1) \o TextUsing,
      TextDimensions \o PyStr((mx + 2) \div 2) \o <<120>>
          \o PyStr((my + 4) \div 4),
      Rule((mx + 2) \div 2)>>

----------------------------------------------------------------------------
(* The stream encoder: the loop over zip(line_chars, line_colors) and the  *)
(* end of the line.                                                        *)

\* len(zip(line_chars, line_colors))
ZipLen(chars, colors) == Min(Len(chars), Len(colors))

\* An encoder that sets the style before every coloured cell.
StyleBefore_always(last, color_idx, bg) ==
    IF bg THEN ansi256_bg(color_idx) ELSE ansi256_fg(color_idx)

\* What the loop body appends before the character of a coloured cell.
StyleBefore(last, color_idx, bg) ==
    IF bg
    THEN IF last # color_idx THEN ansi256_bg(color_idx) ELSE << >>
    ELSE IF last # color_idx THEN ansi256_fg(color_idx) ELSE << >>

\* An encoder that does not reset the style before a blank cell.
ResetBefore_never(last) == << >>

\* What the loop body appends before the character of a blank cell.
ResetBefore(last) == IF last # None THEN ansi_reset ELSE << >>

\* A line end that leaves the style on.
LineEnd_none(last) == << >>

\* What is appended after the last cell.
LineEnd(last) == IF last # None THEN ansi_reset ELSE << >>

\* One iteration of the loop of lines 236-251, on (output_line, last_color).
EncodeStep(out, last, char, color_idx, bg) ==
    IF color_idx # None
    THEN [out  |-> out \o StyleBefore(last, color_idx, bg) \o <<char>>,
          last |-> color_idx]
    ELSE [out  |-> out \o ResetBefore(last) \o <<char>>,
          last |-> None]

EncodeCell ==
    /\ pc = "encode"
    /\ cell_no <= ZipLen(line_chars, line_colors)
    /\ \E st \in {EncodeStep(output_line, last_color, line_chars[cell_no],
                             line_colors[cell_no], use_bg)} :
          /\ output_line' = st.out
          /\ last_color' = st.last
    /\ cell_no' = cell_no + 1
    /\ UNCHANGED <<pc, args, ret, lines, line_no, invert, use_bg, pixels,
                   max_x, max_y, char_width, char_height, char_x, char_y,
                   line_chars, line_colors, color_cache, printed>>

\* Lines 253-257, the step of the loop over char_y (lines 179-181) and,
\* after the last row, the rule of line 259.
EndLine ==
    /\ pc = "encode"
    /\ cell_no > ZipLen(line_chars, line_colors)
    /\ output_line' = output_line \o LineEnd(last_color)
    /\ printed' = IF char_y + 1 < char_height
                  THEN Append(printed, output_line')
                  ELSE printed \o <<output_line', Rule(char_width)>>
    /\ char_y' = char_y + 1
    /\ IF char_y + 1 < char_height
       THEN /\ pc' = "compose"
            /\ line_chars' = << >>
            /\ line_colors' = << >>
            /\ char_x' = 0
       ELSE /\ pc' = "done"
            /\ UNCHANGED <<line_chars, line_colors, char_x>>
    /\ UNCHANGED <<args, ret, lines, line_no, invert, use_bg, pixels, max_x,
                   max_y, char_width, char_height, color_cache, last_color,
                   cell_no>>

----------------------------------------------------------------------------
(* The frame compositor: the grid dimensions and the loop over the cells.  *)

\* Lines 188-198: the 2x4 block of cell (cx, cy), row by row.
BlockAt(px, cx, cy) ==
    [i \in 1..8 |->
        LET key == <<cx * 2 + ((i - 1) % 2), cy * 4 + ((i - 1) \div 2)>>
        IN  IF key \in DOMAIN px THEN px[key] ELSE Absent]

IsPresent(c) == c # Absent

RECURSIVE SumChannel(_, _)
SumChannel(colors, k) ==
    IF colors = << >> THEN 0
    ELSE colors[1][k] + SumChannel(Tail(colors), k)

\* A mean rounded to nearest instead of floored.
AvgColor_rounded(valid_colors) ==
    [k \in 1..3 |-> PyRound(SumChannel(valid_colors, k), Len(valid_colors))]

\* Lines 205-213: the per-channel mean, by floor division.
AvgColor(valid_colors) ==
    [k \in 1..3 |-> SumChannel(valid_colors, k) \div Len(valid_colors)]

\* Lines 163-181: the message for an empty mapping, or the grid dimensions,
\* the three lines of the header, the cache and the start of the first row.
SizeGrid ==
    /\ pc = "size"
    /\ IF DOMAIN pixels = {}
       THEN /\ pc' = "error"
            /\ printed' = Append(printed, TextNoPixels)
            /\ UNCHANGED <<char_width, char_height, color_cache>>
       ELSE /\ pc' = "compose"
            /\ char_width' = (max_x + 2) \div 2
            /\ char_height' = (max_y + 4) \div 4
            /\ printed' = printed \o HeaderLines(max_x, max_y)
            /\ color_cache' = EmptyDict
    /\ char_y' = 0
    /\ char_x' = 0
    /\ line_chars' = << >>
    /\ line_colors' = << >>
    /\ UNCHANGED <<args, ret, lines, line_no, invert, use_bg, pixels, max_x,
                   max_y, output_line, last_color, cell_no>>

\* Lines 183-231: one cell of the row.
ComposeCell ==
    /\ pc = "compose"
    /\ char_x < char_width
    /\ LET blocks       == BlockAt(pixels, char_x, char_y)
           valid_colors == SelectSeq(blocks, IsPresent)
       IN  IF valid_colors # << >>
           THEN LET color_key == AvgColor(valid_colors)
                IN  /\ color_cache' =
                          IF color_key \in DOMAIN color_cache
                          THEN color_cache
                          ELSE DictSet(color_cache, color_key,
                                       rgb_to_ansi256(color_key[1],
                                                      color_key[2],
                                                      color_key[3]))
                    /\ line_chars' =
                          Append(line_chars, pixel_to_braille(blocks, color_key))
                    /\ line_colors' = Append(line_colors, color_cache'[color_key])
           ELSE /\ line_chars' = Append(line_chars, Space)
                /\ line_colors' = Append(line_colors, None)
                /\ UNCHANGED color_cache
    /\ char_x' = char_x + 1
    /\ UNCHANGED <<pc, args, ret, lines, line_no, invert, use_bg, pixels,
                   max_x, max_y, char_width, char_height, char_y,
                   output_line, last_color, cell_no, printed>>

\* Lines 234-235: the row is complete, the encoder starts.
StartEncode ==
    /\ pc = "compose"
    /\ char_x >= char_width
    /\ pc' = "encode"
    /\ output_line' = << >>
    /\ last_color' = None
    /\ cell_no' = 1
    /\ UNCHANGED <<args, ret, lines, line_no, invert, use_bg, pixels, max_x,
                   max_y, char_width, char_height, char_x, char_y, line_chars,
                   line_colors, color_cache, printed>>

----------------------------------------------------------------------------
(* The parse loop of lines 123-161, with str.strip, str.split, str.find,   *)
(* int and float as Python 3.11 defines them (Unicode 14.0.0).  A float is *)
(* kept as the decimal its text writes, num * 10^exp; the values the       *)
(* model computes are those of the code as long as they stay within the    *)
(* 32-bit integers of the model checker: coordinates, channels and the     *)
(* digits of a numeral (the zeros before them and, after a decimal point,  *)
(* behind them left aside) below 2^31.                                     *)

\* "#", line 125.
Hash == 35

\* "%", lines 147-150.
Percent == 37

\* "(", line 140.
OpenParen == 40

\* ")", line 141.
CloseParen == 41

\* ",", lines 132 and 144.
Comma == 44

\* ":", lines 129 and 131.
Colon == 58

\* "+", "-", ".", "_" in the numerals int() and float() read.
Plus == 43

Minus == 45

Point == 46

Underscore == 95

\* The characters str.strip() removes: those str.isspace() holds of.
StrWhitespace ==
    (9..13) \cup (28..32) \cup {133, 160, 5760} \cup (8192..8202)
        \cup {8232, 8233, 8239, 8287, 12288}

\* The characters int() and float() skip around a numeral.
Whitespace == StrWhitespace \ (28..31)

\* The code points of the digits zero of the decimal digits int() and
\* float() read; the digits one to nine follow each.
DigitZeros ==
    {48, 1632, 1776, 1984, 2406, 2534, 2662, 2790, 2918, 3046, 3174, 3302,
     3430, 3558, 3664, 3792, 3872, 4160, 4240, 6112, 6160, 6470, 6608, 6784,
     6800, 6992, 7088, 7232, 7248, 42528, 43216, 43264, 43472, 43504, 43600,
     44016, 65296, 66720, 68912, 69734, 69872, 69942, 70096, 70384, 70736,
     70864, 71248, 71360, 71472, 71904, 72016, 72784, 73040, 73120, 92768,
     92864, 93008, 120782, 120792, 120802, 120812, 120822, 123200, 123632,
     125264, 130032}

IsDigit(c) == \E z \in DigitZeros : c \in z..(z + 9)

DigitValue(c) == c - (CHOOSE z \in DigitZeros : c \in z..(z + 9))

RECURSIVE LStripSet(_, _)
LStripSet(s, set) ==
    IF s # << >> /\ s[1] \in set THEN LStripSet(Tail(s), set) ELSE s

RECURSIVE RStripSet(_, _)
RStripSet(s, set) ==
    IF s # << >> /\ s[Len(s)] \in set
    THEN RStripSet(SubSeq(s, 1, Len(s) - 1), set)
    ELSE s

\* s.strip(chars)
StripSet(s, set) == RStripSet(LStripSet(s, set), set)

\* s.strip()
Strip(s) == StripSet(s, StrWhitespace)

\* c in s
Contains(s, c) == \E i \in 1..Len(s) : s[i] = c

\* s.find(c, from), 1-based, 0 when there is none.
RECURSIVE Find(_, _, _)
Find(s, c, from) ==
    IF from > Len(s) THEN 0
    ELSE IF s[from] = c THEN from
    ELSE Find(s, c, from + 1)

\* s.split(c)
RECURSIVE Split(_, _)

\* s.split(c), given the place i of the first c in s.
SplitAt(s, c, i) ==
    IF i = 0 THEN <<s>>
    ELSE <<SubSeq(s, 1, i - 1)>> \o Split(SubSeq(s, i + 1, Len(s)), c)

Split(s, c) == SplitAt(s, c, Find(s, c, 1))

\* s is decimal digits, with single underscores between digits allowed.
IsNumeral(s) ==
    /\ s # << >>
    /\ IsDigit(s[1])
    /\ IsDigit(s[Len(s)])
    /\ \A i \in 1..Len(s) : IsDigit(s[i]) \/ s[i] = Underscore
    /\ \A i \in 1..(Len(s) - 1) : ~(s[i] = Underscore /\ s[i + 1] = Underscore)

RECURSIVE DigitsValue(_)
DigitsValue(s) ==
    IF s = << >> THEN 0
    ELSE 10 * DigitsValue(SubSeq(s, 1, Len(s) - 1)) + DigitValue(s[Len(s)])

\* The number a numeral writes.
NumeralValue(s) == DigitsValue(SelectSeq(s, IsDigit))

RECURSIVE Pow10(_)
Pow10(n) == IF n = 0 THEN 1 ELSE 10 * Pow10(n - 1)

HasSign(t) == t # << >> /\ t[1] \in {Minus, Plus}

Unsigned(t) == IF HasSign(t) THEN Tail(t) ELSE t

SignOf(t) == IF HasSign(t) /\ t[1] = Minus THEN -1 ELSE 1

\* int(t) for t without white space around it.
IntOfStripped(t) ==
    IF IsNumeral(Unsigned(t))
    THEN [status |-> "ok", val |-> SignOf(t) * NumeralValue(Unsigned(t))]
    ELSE [status |-> "ValueError", val |-> 0]

\* int(tok): [status, val]; status is "ok" or the exception raised.
PyInt(tok) == IntOfStripped(StripSet(tok, Whitespace))

\* The number of decimal digits of n > 0.
RECURSIVE NumDigits(_)
NumDigits(n) == IF n < 10 THEN 1 ELSE 1 + NumDigits(n \div 10)

\* The first d digits of the number n of ten digits.
LeadingDigits(n, d) == IF d >= 10 THEN n ELSE n \div Pow10(10 - d)

\* m, of d digits, is at most the first d digits of 2470328229...
AtMostTinyDigits(m, d) ==
    IF d >= 10 THEN m \div 10 <= 247032822
    ELSE m <= 247032822 \div Pow10(9 - d)

\* m * 10^e, for m > 0, is a number that a double cannot hold and is
\* rounded to infinity: one of 1.7976931348623158e308 or more.
IsHuge(m, e) ==
    \/ NumDigits(m) + e > 309
    \/ /\ NumDigits(m) + e = 309
       /\ m > LeadingDigits(1797693134, NumDigits(m))

\* m * 10^e, for m > 0, is a number that is rounded to zero: one of
\* 2.4703282292062327e-324 or less.
IsTiny(m, e) ==
    \/ NumDigits(m) + e < -323
    \/ /\ NumDigits(m) + e = -323
       /\ AtMostTinyDigits(m, NumDigits(m))

FloatError == [kind |-> "err", num |-> 0, exp |-> 0]

\* The double nearest to sign * m * 10^e, m >= 0.
FloatOf(sign, m, e) ==
    IF m = 0 THEN [kind |-> "num", num |-> 0, exp |-> 0]
    ELSE IF IsHuge(m, e) THEN [kind |-> "inf", num |-> sign, exp |-> 0]
    ELSE IF IsTiny(m, e) THEN [kind |-> "num", num |-> 0, exp |-> 0]
    ELSE [kind |-> "num", num |-> sign * m, exp |-> e]

\* The digits s without the zeros it starts with.
RECURSIVE DropZeros(_)
DropZeros(s) ==
    IF s # << >> /\ DigitValue(s[1]) = 0 THEN DropZeros(Tail(s)) ELSE s

\* The digits s without the zeros it ends with.
RECURSIVE DropLastZeros(_)
DropLastZeros(s) ==
    IF s # << >> /\ DigitValue(s[Len(s)]) = 0
    THEN DropLastZeros(SubSeq(s, 1, Len(s) - 1))
    ELSE s

\* The number the digits s write, or 999999 when it is larger: beyond the
\* exponents of the doubles either way.
CappedValue(s) == IF Len(s) > 6 THEN 999999 ELSE DigitsValue(s)

\* The exponent part after the letter e: [ok, val].
ExponentOf(t) ==
    IF IsNumeral(Unsigned(t))
    THEN [ok  |-> TRUE,
          val |-> SignOf(t)
                     * CappedValue(DropZeros(SelectSeq(Unsigned(t), IsDigit)))]
    ELSE [ok |-> FALSE, val |-> 0]

\* The float of the digits ip before and fp after the point, fp without
\* its last zeros, times 10^e.
DecimalFloat(sign, ip, fp, e) ==
    FloatOf(sign, DigitsValue(ip \o fp), e - Len(fp))

\* The decimal ip.fp with the sign and the exponent part ex given.
DecimalOf(sign, ip, fp, ex) ==
    IF /\ ex.ok
       /\ ip = << >> \/ IsNumeral(ip)
       /\ fp = << >> \/ IsNumeral(fp)
       /\ Len(ip) + Len(fp) > 0
    THEN DecimalFloat(sign, SelectSeq(ip, IsDigit),
                        DropLastZeros(SelectSeq(fp, IsDigit)), ex.val)
    ELSE FloatError

\* The decimal mant, given the place of its first point, with the sign and
\* the exponent part given.
MantissaOf(sign, mant, dot, ex) ==
    IF dot = 0 THEN DecimalOf(sign, mant, << >>, ex)
    ELSE DecimalOf(sign, SubSeq(mant, 1, dot - 1),
                   SubSeq(mant, dot + 1, Len(mant)), ex)

\* c.lower() of an ASCII letter.
Lower(c) == IF c \in 65..90 THEN c + 32 ELSE c

LowerSeq(s) == [i \in 1..Len(s) |-> Lower(s[i])]

\* The place of the first e or E of s, 0 when there is none.
RECURSIVE FindExp(_, _)
FindExp(s, from) ==
    IF from > Len(s) THEN 0
    ELSE IF s[from] \in {69, 101} THEN from
    ELSE FindExp(s, from + 1)

\* The number sign * body, given the place ep of the exponent letter.
NumberOf(sign, body, ep) ==
    IF ep = 0
    THEN MantissaOf(sign, body, Find(body, Point, 1), [ok |-> TRUE, val |-> 0])
    ELSE MantissaOf(sign, SubSeq(body, 1, ep - 1),
                    Find(SubSeq(body, 1, ep - 1), Point, 1),
                    ExponentOf(SubSeq(body, ep + 1, Len(body))))

\* float() of a text without sign, given its lower-case form: inf,
\* infinity, nan or a number.
FloatOfBody(sign, body, low) ==
    IF low \in {<<105, 110, 102>>, <<105, 110, 102, 105, 110, 105, 116, 121>>}
    THEN [kind |-> "inf", num |-> sign, exp |-> 0]
    ELSE IF low = <<110, 97, 110>>
    THEN [kind |-> "nan", num |-> 0, exp |-> 0]
    ELSE NumberOf(sign, body, FindExp(body, 1))

\* float(t) for t without white space around it.
FloatOfStripped(t) == FloatOfBody(SignOf(t), Unsigned(t), LowerSeq(Unsigned(t)))

\* float(tok): [kind, num, exp]; kind is "num" (the value is num * 10^exp),
\* "inf" (num is its sign), "nan" or "err" (ValueError).
PyFloat(tok) == FloatOfStripped(StripSet(tok, Whitespace))

\* |n|
Abs(n) == IF n < 0 THEN -n ELSE n

\* The whole part of (a * 10^4 + b) / 10^k, for a, b >= 0.
WholeOfSplit(a, b, k) ==
    IF k >= 4 THEN (a + b \div 10000) \div Pow10(k - 4)
    ELSE a * Pow10(4 - k) + b \div Pow10(k)

\* The whole part of m * 255 * 10^e, for m >= 0; the product is taken in
\* two parts to stay within the integers of the model checker.
WholeOfScaled(m, e) ==
    IF e >= 0 THEN m * 255 * Pow10(e)
    ELSE IF -e > 13 THEN 0
    ELSE WholeOfSplit((m \div 10000) * 255, (m % 10000) * 255, -e)

\* int(n * 255 * 10^e): towards zero.
TruncScaled(n, e) ==
    IF n >= 0 THEN WholeOfScaled(n, e) ELSE -WholeOfScaled(-n, e)

\* int(f * 255 / 100) for the float f, or the exception it raises: of
\* float() itself, of int() for a nan (ValueError) or for an infinity
\* (OverflowError), f * 255 being one when it is too large.
ScaleFloat(f) ==
    IF f.kind = "inf" THEN [status |-> "OverflowError", val |-> 0]
    ELSE IF f.kind # "num" THEN [status |-> "ValueError", val |-> 0]
    ELSE IF f.num = 0 THEN [status |-> "ok", val |-> 0]
    ELSE IF /\ NumDigits(Abs(f.num)) + f.exp >= 306
            /\ IsHuge(Abs(f.num) * 255, f.exp)
    THEN [status |-> "OverflowError", val |-> 0]
    ELSE [status |-> "ok", val |-> TruncScaled(f.num, f.exp - 2)]

\* int(float(tok.strip('%')) * 255 / 100)
PercentChannel(tok) == ScaleFloat(PyFloat(StripSet(tok, {Percent})))

\* int(tok.strip())
IntChannel(tok) == PyInt(Strip(tok))

\* One channel of lines 146-154; pct is ("%" in parts[0]).
Channel(tok, pct) == IF pct THEN PercentChannel(tok) ELSE IntChannel(tok)

\* The three conversions in the order of the code: the first that raises
\* decides.
ColorOf(r, g, b) ==
    IF r.status # "ok" THEN [status |-> r.status, rgb |-> <<0, 0, 0>>]
    ELSE IF g.status # "ok" THEN [status |-> g.status, rgb |-> <<0, 0, 0>>]
    ELSE IF b.status # "ok" THEN [status |-> b.status, rgb |-> <<0, 0, 0>>]
    ELSE [status |-> "store", rgb |-> <<r.val, g.val, b.val>>]

\* Lines 146-154 on the parts of the colour.
ParseColor(parts, pct) ==
    ColorOf(Channel(parts[1], pct), Channel(parts[2], pct),
            Channel(parts[3], pct))

\* Lines 144-154 on rgb_str.
ColorOfParts(parts) ==
    IF Len(parts) >= 3 THEN ParseColor(parts, Contains(parts[1], Percent))
    ELSE [status |-> "none", rgb |-> <<0, 0, 0>>]

\* Lines 141-154, given rgb_start.
ColorFrom(color_part, rgb_start, rgb_end) ==
    IF rgb_start # 0 /\ rgb_end # 0
    THEN ColorOfParts(Split(SubSeq(color_part, rgb_start + 1, rgb_end - 1),
                            Comma))
    ELSE [status |-> "none", rgb |-> <<0, 0, 0>>]

\* Lines 140-154 on color_part: "store" with the colour, "none" when the
\* line holds no colour of three parts, or the exception raised.
ColorOutcome(color_part) ==
    ColorFrom(color_part, Find(color_part, OpenParen, 1),
              IF Find(color_part, OpenParen, 1) = 0 THEN 0
              ELSE Find(color_part, CloseParen, Find(color_part, OpenParen, 1)))

SkipOutcome == [kind |-> "skip", x |-> 0, y |-> 0, rgb |-> <<0, 0, 0>>]

\* Lines 133-159, given the coordinates and the colour.
SampleOutcome(x, y, col) ==
    IF x.status # "ok" \/ y.status # "ok" THEN SkipOutcome
    ELSE [kind |-> CASE col.status = "store" -> "store"
                     [] col.status \in {"none", "ValueError"} -> "extent"
                     [] OTHER -> "abort",
          x |-> x.val, y |-> y.val, rgb |-> col.rgb]

\* Lines 131-159, given the parts of pos_part.
PositionOutcome(pos, color_part) ==
    IF Len(pos) # 2 THEN SkipOutcome
    ELSE SampleOutcome(PyInt(pos[1]), PyInt(pos[2]), ColorOutcome(color_part))

\* Lines 125-161 on the stripped line, given the place of its first colon.
StrippedOutcome(line, colon) ==
    IF line = << >> \/ line[1] = Hash THEN SkipOutcome
    ELSE IF colon = 0 THEN SkipOutcome
    ELSE PositionOutcome(Split(SubSeq(line, 1, colon - 1), Comma),
                         SubSeq(line, colon + 1, Len(line)))

\* What one line of the stream does: kind is
\*   "skip"    nothing changes (blank, comment, no colon, or int() of a
\*             coordinate raised ValueError);
\*   "extent"  max_x and max_y are updated and no pixel is stored;
\*   "store"   max_x and max_y are updated and the pixel is stored;
\*   "abort"   max_x and max_y are updated and an exception that the loop
\*             does not catch leaves it.
LineOutcome(raw) == StrippedOutcome(Strip(raw), Find(Strip(raw), Colon, 1))

\* Line 157.
Inverted(rgb, inv) ==
    IF inv THEN <<255 - rgb[1], 255 - rgb[2], 255 - rgb[3]>> ELSE rgb

\* The effect of a line of outcome o on [pixels, max_x, max_y, aborted].
ApplyOutcome(st, o, inv) ==
    IF o.kind = "skip" THEN st
    ELSE [pixels  |-> IF o.kind = "store"
                      THEN DictSet(st.pixels, <<o.x, o.y>>,
                                   Inverted(o.rgb, inv))
                      ELSE st.pixels,
          max_x   |-> Max(st.max_x, o.x),
          max_y   |-> Max(st.max_y, o.y),
          aborted |-> (o.kind = "abort")]

\* One iteration of the parse loop on [pixels, max_x, max_y, aborted].
ParseStep(st, raw, inv) == ApplyOutcome(st, LineOutcome(raw), inv)

\* Lines 123-161: one line of the stream.  An exception the loop does not
\* catch reaches the handler of lines 261-262, which prints it and ends the
\* render.
ParseLine ==
    /\ pc = "parse"
    /\ line_no <= Len(lines)
    /\ \E st \in {ParseStep([pixels |-> pixels, max_x |-> max_x,
                             max_y |-> max_y, aborted |-> FALSE],
                            lines[line_no], invert)} :
          /\ pixels' = st.pixels
          /\ max_x' = st.max_x
          /\ max_y' = st.max_y
          /\ pc' = IF st.aborted THEN "crash"
                   ELSE IF line_no = Len(lines) THEN "size"
                   ELSE "parse"
          /\ printed' = IF st.aborted THEN Append(printed, TextOverflow)
                        ELSE printed
    /\ line_no' = line_no + 1
    /\ UNCHANGED <<args, ret, lines, invert, use_bg, char_width, char_height,
                   char_x, char_y, line_chars, line_colors, color_cache,
                   output_line, last_color, cell_no>>

----------------------------------------------------------------------------
(* The loops as functions of their inputs.                                 *)

\* The parse loop from line i of the stream on; an abort ends it.
RECURSIVE ParseFrom(_, _, _, _)
ParseFrom(stream, i, st, inv) ==
    IF i > Len(stream) \/ st.aborted THEN st
    ELSE ParseFrom(stream, i + 1, ParseStep(st, stream[i], inv), inv)

\* Lines 117-161 on a stream.
ParseAll(stream, inv) ==
    ParseFrom(stream, 1,
              [pixels |-> EmptyDict, max_x |-> 0, max_y |-> 0,
               aborted |-> FALSE], inv)

\* Lines 201-231 on a block and its present samples: (character, index).
CellOfBlock(blocks, valid_colors) ==
    IF valid_colors # << >>
    THEN <<pixel_to_braille(blocks, AvgColor(valid_colors)),
           rgb_to_ansi256(AvgColor(valid_colors)[1], AvgColor(valid_colors)[2],
                          AvgColor(valid_colors)[3])>>
    ELSE <<Space, None>>

\* Lines 183-231: the cells of row cy.
RowOf(px, cy, width) ==
    [k \in 1..width |->
        CellOfBlock(BlockAt(px, k - 1, cy),
                    SelectSeq(BlockAt(px, k - 1, cy), IsPresent))]

\* The encoder loop from cell k of the row on, and the end of the line.
RECURSIVE EncodeFrom(_, _, _, _)
EncodeFrom(row, k, st, bg) ==
    IF k > Len(row) THEN st.out \o LineEnd(st.last)
    ELSE EncodeFrom(row, k + 1,
                    EncodeStep(st.out, st.last, row[k][1], row[k][2], bg), bg)

\* Lines 234-255 on a row.
EncodeRow(row, bg) == EncodeFrom(row, 1, [out |-> << >>, last |-> None], bg)

\* Lines 179-257: the rows printed for a pixel mapping and its extent.
RenderOf(px, mx, my, bg) ==
    [r \in 1..((my + 4) \div 4) |-> EncodeRow(RowOf(px, r - 1, (mx + 2) \div 2), bg)]

\* Lines 163-259: what is printed after the lines before.
StdoutOf(before, px, mx, my, bg) ==
    IF DOMAIN px = {} THEN Append(before, TextNoPixels)
    ELSE before \o HeaderLines(mx, my) \o RenderOf(px, mx, my, bg)
            \o <<Rule((mx + 2) \div 2)>>

----------------------------------------------------------------------------
(* The inputs of the model.                                                *)

\* # ImageMagick pixel enumeration: 2,2,255,srgb
LineHeader ==
    <<35, 32, 73, 109, 97, 103, 101, 77, 97, 103, 105, 99, 107, 32, 112,
      105, 120, 101, 108, 32, 101, 110, 117, 109, 101, 114, 97, 116, 105,
      111, 110, 58, 32, 50, 44, 50, 44, 50, 53, 53, 44, 115, 114, 103, 98>>

\* 0,0: (255,255,255)  #FFFFFF  white
LineWhite ==
    <<48, 44, 48, 58, 32, 40, 50, 53, 53, 44, 50, 53, 53, 44, 50, 53, 53,
      41, 32, 32, 35, 70, 70, 70, 70, 70, 70, 32, 32, 119, 104, 105, 116,
      101>>

\* 1,0: (0,0,0)  #000000  black
LineBlack ==
    <<49, 44, 48, 58, 32, 40, 48, 44, 48, 44, 48, 41, 32, 32, 35, 48, 48,
      48, 48, 48, 48, 32, 32, 98, 108, 97, 99, 107>>

\* 2,4: (50%,100%,1%)
LinePercent ==
    <<50, 44, 52, 58, 32, 40, 53, 48, 37, 44, 49, 48, 48, 37, 44, 49, 37,
      41>>

\* x,1: (9,9,9)
LineBadCoord ==
    <<120, 44, 49, 58, 32, 40, 57, 44, 57, 44, 57, 41>>

\* 9,11: (128)  #808080  gray(128)
LineGray ==
    <<57, 44, 49, 49, 58, 32, 40, 49, 50, 56, 41, 32, 32, 35, 56, 48, 56,
      48, 56, 48, 32, 32, 103, 114, 97, 121, 40, 49, 50, 56, 41>>

\* 3,1: (12,y,7)
LineBadColor ==
    <<51, 44, 49, 58, 32, 40, 49, 50, 44, 121, 44, 55, 41>>

\* 1,1: (inf%,0%,0%)
LineInf ==
    <<49, 44, 49, 58, 32, 40, 105, 110, 102, 37, 44, 48, 37, 44, 48, 37,
      41>>

\* a vertical tab, 0,1: (1e2%,5E-1%,2.5e1%), a no-break space
LineExponent ==
    <<11, 48, 44, 49, 58, 32, 40, 49, 101, 50, 37, 44, 53, 69, 45, 49, 37,
      44, 50, 46, 53, 101, 49, 37, 41, 160>>

\* 0,0: (31,-91,2583): channels outside 0..255 of brightness 128 to the digit
LineOutside ==
    <<48, 44, 48, 58, 32, 40, 51, 49, 44, 45, 57, 49, 44, 50, 53, 56, 51, 41>>

\* (an empty line)
LineBlank == << >>

LineSamples ==
    {LineHeader, LineWhite, LineBlack, LinePercent, LineBadCoord, LineGray,
     LineBadColor, LineInf, LineExponent, LineOutside, LineBlank}

\* The streams: one to MaxLines lines.
Streams == UNION {[1..n -> LineSamples] : n \in 1..MaxLines}

\* What lines 87-89 have printed before the parse: nothing when identify
\* fails, the original dimensions of the image when it answers.
Preambles == {<< >>, <<LineOriginal>>}

White == <<255, 255, 255>>

\* The samples a pixel mapping is drawn from: (x, y, colour), over a grid of
\* two by two cells.
PixelSamples ==
    {<<0, 0, White>>, <<1, 0, White>>, <<0, 1, White>>, <<1, 1, White>>,
     <<2, 0, <<255, 0, 0>>>>, <<3, 1, <<0, 0, 0>>>>,
     <<0, 4, <<128, 128, 128>>>>, <<1, 7, <<129, 129, 129>>>>,
     <<2, 5, <<0, 180, 0>>>>, <<3, 7, <<255, 0, 0>>>>, <<3, 0, White>>}

\* The dict of a set of samples.
DictOf(samples) ==
    [key \in {<<p[1], p[2]>> : p \in samples} |->
        (CHOOSE p \in samples : <<p[1], p[2]>> = key)[3]]

\* The largest of a set of naturals, 0 for the empty set (max_x = 0 at
\* line 120).
SetMax(S) == IF S = {} THEN 0 ELSE CHOOSE m \in S : \A n \in S : n <= m

\* The colours in 0..255 whose brightness is 128 to the digit:
\* 2126 r + 7152 g + 722 b = 1280000.
TieColors ==
    {<<12, 175, 4>>, <<15, 152, 223>>, <<29, 165, 53>>, <<46, 155, 102>>,
     <<63, 145, 151>>, <<80, 135, 200>>, <<94, 148, 30>>, <<97, 125, 249>>,
     <<111, 138, 79>>, <<128, 128, 128>>, <<145, 118, 177>>, <<159, 131, 7>>,
     <<162, 108, 226>>, <<176, 121, 56>>, <<193, 111, 105>>,
     <<210, 101, 154>>, <<227, 91, 203>>, <<241, 104, 33>>, <<244, 81, 252>>}

\* The blocks handed to pixel_to_braille on its own: those of absent, white
\* and mid-grey samples, those of absent samples and samples just above
\* (128.736) and just below (127.9278) the threshold, and those of a single
\* sample at the threshold.
QuantizerBlocks ==
    [1..8 -> {Absent, White, <<128, 128, 128>>}]
        \cup [1..8 -> {Absent, <<0, 180, 0>>, <<12, 175, 3>>}]
        \cup {[i \in 1..8 |-> IF i = k THEN c ELSE Absent] :
                  k \in 1..8, c \in TieColors}

\* The channel values the palette mapper is called with: the edges of the
\* six levels of the cube, and values around the ends of the grey ramp.
ChannelSamples ==
    {0, 7, 8, 10, 25, 26, 51, 76, 77, 127, 128, 178, 179, 229, 230, 248, 249,
     MaxChannel}

MapperInputs ==
    {<<v, v, v>> : v \in 0..MaxChannel}
        \cup (ChannelSamples \X ChannelSamples \X ChannelSamples)

\* The styled cells a row handed to the encoder on its own is made of: the
\* blank cell, and cells the compositor makes of blocks of one colour.
CellOfColor(c) ==
    <<pixel_to_braille([i \in 1..8 |-> c], c), rgb_to_ansi256(c[1], c[2], c[3])>>

CellSamples ==
    {<<Space, None>>, CellOfColor(White), CellOfColor(<<0, 0, 0>>),
     CellOfColor(<<255, 0, 0>>)}

Rows == UNION {[1..n -> CellSamples] : n \in 1..MaxRowLen}

----------------------------------------------------------------------------
(* The specifications.                                                     *)

\* The variables of the render before its first line is parsed.
RenderIdle ==
    /\ pixels = EmptyDict
    /\ max_x = 0
    /\ max_y = 0
    /\ line_no = 1
    /\ char_width = 0
    /\ char_height = 0
    /\ char_x = 0
    /\ char_y = 0
    /\ line_chars = << >>
    /\ line_colors = << >>
    /\ color_cache = EmptyDict
    /\ output_line = << >>
    /\ last_color = None
    /\ cell_no = 1

\* display_image_braille from the parse loop on: a stream, the flags and
\* what has been printed before.
Init ==
    /\ pc = "parse"
    /\ args = << >>
    /\ ret = None
    /\ lines \in Streams
    /\ invert \in BOOLEAN
    /\ use_bg \in BOOLEAN
    /\ printed \in Preambles
    /\ RenderIdle

Next == ParseLine \/ SizeGrid \/ ComposeCell \/ StartEncode \/ EncodeCell
            \/ EndLine

Spec == Init /\ [][Next]_vars

\* display_image_braille from line 163 on: a pixel mapping of up to
\* MaxPixels samples with its extent.
InitCompose ==
    /\ pc = "size"
    /\ args = << >>
    /\ ret = None
    /\ lines = << >>
    /\ invert = FALSE
    /\ use_bg \in BOOLEAN
    /\ \E samples \in SUBSET PixelSamples :
          /\ samples # {}
          /\ Cardinality(samples) <= MaxPixels
          /\ pixels = DictOf(samples)
          /\ max_x = SetMax({p[1] : p \in samples})
          /\ max_y = SetMax({p[2] : p \in samples})
    /\ line_no = 1
    /\ char_width = 0
    /\ char_height = 0
    /\ char_x = 0
    /\ char_y = 0
    /\ line_chars = << >>
    /\ line_colors = << >>
    /\ color_cache = EmptyDict
    /\ output_line = << >>
    /\ last_color = None
    /\ cell_no = 1
    /\ printed = << >>

NextCompose == SizeGrid \/ ComposeCell \/ StartEncode \/ EncodeCell \/ EndLine

SpecCompose == InitCompose /\ [][NextCompose]_vars

\* The stream encoder on one row (lines 234-257): a row of one to MaxRowLen
\* styled cells and the flag.
InitEncoder ==
    /\ pc = "encode"
    /\ args = << >>
    /\ ret = None
    /\ lines = << >>
    /\ invert = FALSE
    /\ use_bg \in BOOLEAN
    /\ \E row \in Rows :
          /\ line_chars = [i \in DOMAIN row |-> row[i][1]]
          /\ line_colors = [i \in DOMAIN row |-> row[i][2]]
          /\ char_width = Len(row)
          /\ char_x = Len(row)
    /\ pixels = EmptyDict
    /\ max_x = 0
    /\ max_y = 0
    /\ line_no = 1
    /\ char_height = 1
    /\ char_y = 0
    /\ color_cache = EmptyDict
    /\ output_line = << >>
    /\ last_color = None
    /\ cell_no = 1
    /\ printed = << >>

NextEncoder == EncodeCell \/ EndLine

SpecEncoder == InitEncoder /\ [][NextEncoder]_vars

\* A call of rgb_to_ansi256.
CallMapper ==
    /\ pc = "call_map"
    /\ ret' = rgb_to_ansi256(args[1], args[2], args[3])
    /\ pc' = "return"
    /\ UNCHANGED <<args>>
    /\ UNCHANGED renderVars

InitMapper ==
    /\ pc = "call_map"
    /\ args \in MapperInputs
    /\ ret = None
    /\ lines = << >>
    /\ invert = FALSE
    /\ use_bg = FALSE
    /\ printed = << >>
    /\ RenderIdle

SpecMapper == InitMapper /\ [][CallMapper]_vars

\* A call of pixel_to_braille.
CallQuantizer ==
    /\ pc = "call_quant"
    /\ ret' = pixel_to_braille(args, << >>)
    /\ pc' = "return"
    /\ UNCHANGED <<args>>
    /\ UNCHANGED renderVars

InitQuantizer ==
    /\ pc = "call_quant"
    /\ args \in QuantizerBlocks
    /\ ret = None
    /\ lines = << >>
    /\ invert = FALSE
    /\ use_bg = FALSE
    /\ printed = << >>
    /\ RenderIdle

SpecQuantizer == InitQuantizer /\ [][CallQuantizer]_vars

----------------------------------------------------------------------------
(* The palette mapper (SpecMapper).                                        *)

Returned == pc = "return"

\* The bucket of a channel value: the multiple of 51 nearest to it.
Bucket(c) == (2 * c + 51) \div 102

IsChromatic(t) == ~(t[1] = t[2] /\ t[2] = t[3])

\* The triple t with channel k replaced by c.
Perturbed(t, k, c) == [j \in 1..3 |-> IF j = k THEN c ELSE t[j]]

MapOf(t) == rgb_to_ansi256(t[1], t[2], t[3])

\* C4: for an achromatic triple r = g = b = v the mapper returns 16 when
\* v < 8 (v = 0 among them), 231 when v > 248 (v = 255 among them), and for
\* 8 <= v <= 248 an index in 232..255 that is non-decreasing in v.
C4_Achromatic ==
    (Returned /\ ~IsChromatic(args)) =>
        /\ args[1] < 8 => ret = 16
        /\ args[1] > 248 => ret = 231
        /\ args[1] \in 8..248 =>
              /\ ret \in 232..255
              /\ \A w \in 8..args[1] : MapOf(<<w, w, w>>) <= ret

\* A grey of the middle of the ramp has been mapped.
C4_Witness == Returned /\ args = <<128, 128, 128>> /\ ret = 244

\* C5 as stated: for a chromatic triple the result is in 16..231, and
\* replacing a channel by any value of the same bucket leaves it unchanged.
C5_Original ==
    (Returned /\ IsChromatic(args)) =>
        /\ ret \in 16..231
        /\ \A k \in 1..3 : \A c \in 0..MaxChannel :
              Bucket(c) = Bucket(args[k]) => MapOf(Perturbed(args, k, c)) = ret

\* C5, amended: for a chromatic triple the result is in 16..231, and
\* replacing a channel by any value of the same bucket that leaves the
\* triple chromatic leaves the result unchanged.
C5_Chromatic ==
    (Returned /\ IsChromatic(args)) =>
        /\ ret \in 16..231
        /\ \A k \in 1..3 : \A c \in 0..MaxChannel :
              (Bucket(c) = Bucket(args[k])
                    /\ IsChromatic(Perturbed(args, k, c)))
                 => MapOf(Perturbed(args, k, c)) = ret

\* A chromatic triple whose channels have room to move in their buckets has
\* been mapped.
C5_Witness ==
    /\ Returned
    /\ args = <<26, 10, 229>>
    /\ ret = 16 + 36 * 1 + 6 * 0 + 4
    /\ MapOf(<<76, 10, 229>>) = ret

----------------------------------------------------------------------------
(* The cell quantizer (SpecQuantizer).                                     *)

\* Bit k of the number n.
Bit(n, k) == (n \div (2 ^ k)) % 2 = 1

\* The brightness 0.2126 R + 0.7152 G + 0.0722 B of c, as a real number, is
\* above 128.
Above128(c) == 2126 * c[1] + 7152 * c[2] + 722 * c[3] > 1280000

DotBits == <<0, 3, 1, 4, 2, 5, 6, 7>>

\* C6: the glyph is code point base + DotPattern with DotPattern in 0..255,
\* where bit <<0,3,1,4,2,5,6,7>>[i] is set iff sample i is present and
\* brighter than 128; an all-absent block gives 0, an all-white block 255,
\* a block with only position 6 bright and the rest absent 64.
C6_DotPattern ==
    Returned =>
        /\ ret - 10240 \in 0..255
        /\ \A i \in 1..8 :
              Bit(ret - 10240, DotBits[i])
                 <=> (args[i] # Absent /\ Above128(args[i]))
        /\ (\A i \in 1..8 : args[i] = Absent) => ret = 10240
        /\ (\A i \in 1..8 : args[i] = <<255, 255, 255>>) => ret = 10240 + 255
        /\ (/\ args[7] # Absent
            /\ Above128(args[7])
            /\ \A i \in (1..8) \ {7} : args[i] = Absent) => ret = 10240 + 64

\* The block with only position 6 bright has been quantized.
C6_Witness ==
    /\ Returned
    /\ args = [i \in 1..8 |-> IF i = 7 THEN <<255, 255, 255>> ELSE Absent]
    /\ ret = 10240 + 64

----------------------------------------------------------------------------
(* The stream encoder (SpecEncoder): an output line as a terminal reads it.*)

\* The number a sequence of digit code points writes, -1 when it is none.
RECURSIVE DecimalValue(_)
DecimalValue(ds) ==
    IF ds = << >> THEN 0
    ELSE 10 * DecimalValue(SubSeq(ds, 1, Len(ds) - 1)) + (ds[Len(ds)] - 48)

ParamValue(ds) ==
    IF ds # << >> /\ \A i \in 1..Len(ds) : ds[i] \in 48..57
    THEN DecimalValue(ds)
    ELSE -1

\* The directive of the parameters between ESC [ and m: a reset, a
\* style-set with its mode and index, or unknown.
Directive(params) ==
    LET ps == Split(params, 59)
        n  == [i \in 1..Len(ps) |-> ParamValue(ps[i])]
    IN  IF n = <<0>> THEN [kind |-> "reset", mode |-> "none", idx |-> None]
        ELSE IF Len(n) = 3 /\ n[1] = 38 /\ n[2] = 5 /\ n[3] >= 0
        THEN [kind |-> "set", mode |-> "fg", idx |-> n[3]]
        ELSE IF Len(n) = 3 /\ n[1] = 48 /\ n[2] = 5 /\ n[3] >= 0
        THEN [kind |-> "set", mode |-> "bg", idx |-> n[3]]
        ELSE [kind |-> "unknown", mode |-> "none", idx |-> None]

\* The terminal before the first character of a line: nothing shown, no
\* style active.
TermStart ==
    [ok |-> TRUE, cells |-> << >>, active |-> None, mode |-> "none",
     sets |-> 0, resets |-> 0, last |-> "none"]

\* The terminal t after the directive d.
AfterDirective(t, d) ==
    IF d.kind = "set"
    THEN [t EXCEPT !.active = d.idx, !.mode = d.mode, !.sets = @ + 1,
                   !.last = "set"]
    ELSE IF d.kind = "reset"
    THEN [t EXCEPT !.active = None, !.mode = "none", !.resets = @ + 1,
                   !.last = "reset"]
    ELSE [t EXCEPT !.ok = FALSE]

\* The terminal t after the character c is shown in the active style.
AfterChar(t, c) ==
    [t EXCEPT !.cells = Append(@, [char |-> c, style |-> t.active,
                                   mode |-> t.mode, resets |-> t.resets])]

\* The terminal after reading line from place i on, left to right.
RECURSIVE Read(_, _, _)
Read(line, i, t) ==
    IF i > Len(line) THEN t
    ELSE IF line[i] # ESC THEN Read(line, i + 1, AfterChar(t, line[i]))
    ELSE LET m == Find(line, 109, i)
         IN  IF m = 0 \/ i + 1 > Len(line) \/ line[i + 1] # 91
             THEN [t EXCEPT !.ok = FALSE]
             ELSE Read(line, m + 1,
                       AfterDirective(t, Directive(SubSeq(line, i + 2, m - 1))))

Terminal(line) == Read(line, 1, TermStart)

Encoding == pc \in {"encode", "done"}

\* The cells the encoder has gone through.
Encoded == cell_no - 1

ModeOf(bg) == IF bg THEN "bg" ELSE "fg"

\* C1: read left to right from no active style, the output line shows one
\* character per cell in the order of the row: the glyph of a coloured cell
\* while the active style is exactly its PaletteIndex (foreground or
\* background as use_background says), the space of a blank cell while no
\* style is active.
C1_Rendering ==
    Encoding =>
        LET t == Terminal(output_line)
        IN  /\ t.ok
            /\ Len(t.cells) = Encoded
            /\ \A k \in 1..Encoded :
                  /\ t.cells[k].char = line_chars[k]
                  /\ line_colors[k] # None =>
                        /\ t.cells[k].style = line_colors[k]
                        /\ t.cells[k].mode = ModeOf(use_bg)
                  /\ line_colors[k] = None =>
                        /\ t.cells[k].style = None
                        /\ t.cells[k].char = 32

\* A row with a blank cell between two cells of one colour has been encoded.
C1_Witness ==
    /\ pc = "done"
    /\ Len(line_colors) = 3
    /\ line_colors[1] = 231
    /\ line_colors[2] = None
    /\ line_colors[3] = 231

\* The colour in effect just before cell k: none at the start of the row
\* and after a blank cell.
InEffectBefore(k) == IF k = 1 THEN None ELSE line_colors[k - 1]

\* The coloured cells whose index differs from the colour in effect before.
Transitions ==
    {k \in 1..Len(line_colors) :
        line_colors[k] # None /\ line_colors[k] # InEffectBefore(k)}

\* The colour changes among consecutive non-blank cells.
ColorChanges ==
    {k \in 2..Len(line_colors) :
        /\ line_colors[k] # None
        /\ line_colors[k - 1] # None
        /\ line_colors[k] # line_colors[k - 1]}

UniformRow ==
    /\ Len(line_colors) >= 1
    /\ \A k \in 1..Len(line_colors) :
          line_colors[k] # None /\ line_colors[k] = line_colors[1]

NoBlankCell ==
    /\ Len(line_colors) >= 1
    /\ \A k \in 1..Len(line_colors) : line_colors[k] # None

\* The style-set directives equal the transitions; a row of one colour has
\* one style-set directive and no reset before its last cell.
SetsAreTransitions ==
    LET t == Terminal(output_line)
    IN  /\ t.sets = Cardinality(Transitions)
        /\ UniformRow =>
              /\ t.sets = 1
              /\ t.cells[Len(t.cells)].resets = 0

HasColouredCell == \E k \in 1..Len(line_colors) : line_colors[k] # None

\* The maximal runs of consecutive non-blank cells, each by its first cell.
Runs ==
    {k \in 1..Len(line_colors) :
        line_colors[k] # None /\ InEffectBefore(k) = None}

\* C2 as stated: the style-set directives are as many as the coloured cells
\* whose index differs from the colour in effect just before them, so a row
\* with C colour changes among consecutive non-blank cells has C + 1 of
\* them, and a row of one colour has one and no reset before its last cell.
\* (The count is asked only of rows that have a coloured cell.)
C2_Original ==
    pc = "done" =>
        /\ SetsAreTransitions
        /\ HasColouredCell =>
              Terminal(output_line).sets = Cardinality(ColorChanges) + 1

\* The coloured cells are one run: the row has a coloured cell, and no
\* blank cell lies between two coloured cells.
OneRun ==
    /\ HasColouredCell
    /\ \A i, j, k \in 1..Len(line_colors) :
          (i < j /\ j < k /\ line_colors[i] # None /\ line_colors[k] # None)
             => line_colors[j] # None

\* C2, amended: the same, where a row with C colour changes among
\* consecutive non-blank cells and R maximal runs of consecutive non-blank
\* cells has C + R style-set directives: none when it has no coloured cell,
\* and C + 1 exactly when R = 1, that is when its coloured cells are one
\* run, as they are in a row without a blank cell.
C2_Transitions ==
    pc = "done" =>
        /\ SetsAreTransitions
        /\ Terminal(output_line).sets
              = Cardinality(ColorChanges) + Cardinality(Runs)
        /\ ~HasColouredCell => Terminal(output_line).sets = 0
        /\ Terminal(output_line).sets = Cardinality(ColorChanges) + 1
              <=> Cardinality(Runs) = 1
        /\ Cardinality(Runs) = 1 <=> OneRun
        /\ NoBlankCell =>
              /\ OneRun
              /\ Terminal(output_line).sets = Cardinality(ColorChanges) + 1

\* A row that starts with a blank cell, its three coloured cells one run
\* with one colour change, has been encoded.
C2_Witness ==
    /\ pc = "done"
    /\ line_colors = <<None, 231, 231, 16>>
    /\ Cardinality(Runs) = 1
    /\ Terminal(output_line).sets = 2

\* The row printed by line 257: the line before the closing rule.
PrintedLine == printed[Len(printed) - 1]

\* C3: at the end of the output line no style is active: when the line holds
\* a style-set directive, its last directive is a reset.
C3_NoLeak ==
    pc = "done" =>
        LET t == Terminal(PrintedLine)
        IN  /\ t.ok
            /\ t.active = None
            /\ t.sets > 0 => t.last = "reset"

\* A row that ends with a coloured cell has been printed.
C3_Witness ==
    /\ pc = "done"
    /\ line_colors[Len(line_colors)] # None
    /\ Terminal(PrintedLine).resets = 1

----------------------------------------------------------------------------
(* The frame compositor (SpecCompose).                                     *)

\* The offsets (px, py) of the block of cell (cx, cy) that hold a pixel.
PresentAt(cx, cy) ==
    {o \in (0..1) \X (0..3) : <<cx * 2 + o[1], cy * 4 + o[2]>> \in DOMAIN pixels}

PixelAt(cx, cy, o) == pixels[<<cx * 2 + o[1], cy * 4 + o[2]>>]

RECURSIVE SumOver(_, _, _, _)
SumOver(cx, cy, S, k) ==
    IF S = {} THEN 0
    ELSE LET o == CHOOSE o \in S : TRUE
         IN  PixelAt(cx, cy, o)[k] + SumOver(cx, cy, S \ {o}, k)

\* The per-channel mean of the present samples, truncated.
TruncatedMean(cx, cy) ==
    [k \in 1..3 |->
        PyTrunc(SumOver(cx, cy, PresentAt(cx, cy), k),
                Cardinality(PresentAt(cx, cy)))]

\* The block in row-major order: sample 2 * py + px is pixel
\* (cx * 2 + px, cy * 4 + py).
RowMajorBlock(cx, cy) ==
    [i \in 1..8 |->
        LET o == <<(i - 1) % 2, (i - 1) \div 2>>
        IN  IF o \in PresentAt(cx, cy) THEN PixelAt(cx, cy, o) ELSE Absent]

\* The row whose cells line_chars and line_colors hold.
RowInHand == IF pc = "done" THEN char_y - 1 ELSE char_y

\* Cell k of the row in hand is what the claim says of cell (k - 1, cy).
CellAsClaimed(k, cy) ==
    IF PresentAt(k - 1, cy) = {}
    THEN line_chars[k] = 32 /\ line_colors[k] = None
    ELSE /\ line_colors[k] = MapOf(TruncatedMean(k - 1, cy))
         /\ line_colors[k] \in 16..255
         /\ TruncatedMean(k - 1, cy) \in DOMAIN color_cache
         /\ color_cache[TruncatedMean(k - 1, cy)] = line_colors[k]
         /\ line_chars[k] = pixel_to_braille(RowMajorBlock(k - 1, cy), << >>)
         /\ line_chars[k] # 32

FourWhite == {<<0, 0>>, <<1, 0>>, <<0, 1>>, <<1, 1>>}

FourWhiteBlock ==
    /\ PresentAt(0, 0) = FourWhite
    /\ \A o \in FourWhite : PixelAt(0, 0, o) = <<255, 255, 255>>

\* The cells (cx, cy) composed so far: the rows before the row in hand, and
\* the cells of the row in hand.
CellsComposed ==
    {c \in (0..(char_width - 1)) \X (0..RowInHand) :
        c[2] < RowInHand \/ c[1] < Len(line_chars)}

\* The cache holds the palette mapper's result for the mean of each cell
\* composed so far that has a sample, and nothing else.
CacheAsClaimed ==
    /\ DOMAIN color_cache =
          {TruncatedMean(c[1], c[2]) :
              c \in {d \in CellsComposed : PresentAt(d[1], d[2]) # {}}}
    /\ \A key \in DOMAIN color_cache : color_cache[key] = MapOf(key)

\* C9: a cell of the grid is (' ', None) iff none of its 8 coordinates is in
\* the pixel mapping; otherwise its index is the palette mapper's result
\* (cached or computed) for the truncated per-channel mean of the present
\* samples, in 16..255, and its glyph the cell quantizer's for the block in
\* row-major order.  Four white pixels at (0,0), (1,0), (0,1), (1,1) with
\* the rest absent give DotPattern 27 and index 231.
C9_Cells ==
    pc \in {"compose", "encode", "done"} =>
        /\ Len(line_chars) = Len(line_colors)
        /\ \A k \in 1..Len(line_chars) : CellAsClaimed(k, RowInHand)
        /\ CacheAsClaimed
        /\ (RowInHand = 0 /\ Len(line_chars) >= 1 /\ FourWhiteBlock) =>
              line_chars[1] = 10240 + 27 /\ line_colors[1] = 231

\* The cell of the four white pixels has been composed, the cell beside it,
\* of one white pixel, has taken its index from the cache, where white is
\* the only key, and their row is printed.
C9_Witness ==
    /\ pc = "done"
    /\ char_y = 1
    /\ FourWhiteBlock
    /\ PresentAt(1, 0) = {<<1, 0>>}
    /\ PixelAt(1, 0, <<1, 0>>) = <<255, 255, 255>>
    /\ line_chars = <<10240 + 27, 10240 + 8>>
    /\ line_colors = <<231, 231>>
    /\ DOMAIN color_cache = {<<255, 255, 255>>}

----------------------------------------------------------------------------
(* The whole render (Spec).                                                *)

\* The rows printed so far by line 257: the last lines of the output, the
\* closing rule left aside.
RowsPrinted ==
    IF pc = "done"
    THEN SubSeq(printed, Len(printed) - char_y, Len(printed) - 1)
    ELSE SubSeq(printed, Len(printed) - char_y + 1, Len(printed))

\* The output is that of the loops taken as functions.
RenderIsFunctional ==
    pc \in {"done", "error"} =>
        \E before \in Preambles :
            printed = StdoutOf(before, pixels, max_x, max_y, use_bg)

IsIgnored(raw) == Strip(raw) = << >> \/ Strip(raw)[1] = Hash

\* The line is a sample that parses.
IsSample(raw) == ~IsIgnored(raw) /\ LineOutcome(raw).kind = "store"

\* The line fails to parse as a sample.
IsMalformed(raw) == ~IsIgnored(raw) /\ LineOutcome(raw).kind # "store"

Without(stream, i) ==
    SubSeq(stream, 1, i - 1) \o SubSeq(stream, i + 1, Len(stream))

\* Line i is malformed, every other line is valid, and one is a sample.
MalformedAmidValid(i) ==
    /\ IsMalformed(lines[i])
    /\ \A j \in (1..Len(lines)) \ {i} : IsIgnored(lines[j]) \/ IsSample(lines[j])
    /\ \E j \in (1..Len(lines)) \ {i} : IsSample(lines[j])

Parsed == pc \in {"size", "compose", "encode", "done"}

\* C7: a malformed line amid otherwise valid lines never aborts the parse,
\* and the stream yields the pixel mapping, the extent and the rendered grid
\* of the stream without that line.
C7_MalformedSkipped ==
    \A i \in 1..Len(lines) :
        MalformedAmidValid(i) =>
            LET p == ParseAll(Without(lines, i), invert)
            IN  /\ pc # "crash"
                /\ Parsed =>
                      /\ pixels = p.pixels
                      /\ max_x = p.max_x
                      /\ max_y = p.max_y
                /\ pc = "done" =>
                      RowsPrinted = RenderOf(p.pixels, p.max_x, p.max_y, use_bg)

\* The line the parse loop has just gone through.
LastLine == lines[line_no - 1]

\* The parts of the colour of a line, between its parentheses.
ColorParts(raw) ==
    LET line == Strip(raw)
        cp   == SubSeq(line, Find(line, Colon, 1) + 1, Len(line))
        open == Find(cp, OpenParen, 1)
    IN  Split(SubSeq(cp, open + 1, Find(cp, CloseParen, open) - 1), Comma)

IsPercentSample(raw) ==
    IsSample(raw) /\ Contains(ColorParts(raw)[1], Percent)

PercentOf(tok) == PyFloat(StripSet(tok, {Percent}))

\* A percentage of 0..100, written with at most six decimals.
InPercentRange(tok) ==
    /\ PercentOf(tok).kind = "num"
    /\ PercentOf(tok).num >= 0
    /\ PercentOf(tok).exp \in -6..2
    /\ IF PercentOf(tok).exp >= 0
       THEN PercentOf(tok).num * Pow10(PercentOf(tok).exp) <= 100
       ELSE PercentOf(tok).num <= 100 * Pow10(-PercentOf(tok).exp)

\* round(pct * 255 / 100)
RoundedChannel(tok) ==
    IF PercentOf(tok).exp >= 2
    THEN PercentOf(tok).num * 255 * Pow10(PercentOf(tok).exp - 2)
    ELSE PyRound(PercentOf(tok).num * 255, Pow10(2 - PercentOf(tok).exp))

\* C8: a sample given as three percentages of 0..100 is stored with each
\* channel round(pct * 255 / 100), or 255 minus that under invert.
C8_PercentRounded ==
    (/\ pc \in {"parse", "size"}
     /\ line_no > 1
     /\ IsPercentSample(LastLine)
     /\ \A k \in 1..3 : InPercentRange(ColorParts(LastLine)[k]))
    =>  LET parts == ColorParts(LastLine)
            o     == LineOutcome(LastLine)
        IN  pixels[<<o.x, o.y>>]
               = Inverted(<<RoundedChannel(parts[1]), RoundedChannel(parts[2]),
                            RoundedChannel(parts[3])>>, invert)

CeilDiv(a, b) == (a + b - 1) \div b

\* The largest x and y among the coordinates of the pixel mapping.
MaxPresentX == SetMax({key[1] : key \in DOMAIN pixels})

MaxPresentY == SetMax({key[2] : key \in DOMAIN pixels})

\* C10: the grid has ceil((max_x + 1) / 2) columns and ceil((max_y + 1) / 4)
\* rows, max_x and max_y being the largest x and y among the coordinates of
\* the pixel mapping (5 by 3 for 9 and 11); every pixel falls in one cell;
\* rows are emitted by increasing char_y, cells by increasing char_x.
C10_GridSize ==
    pc \in {"compose", "encode", "done"} =>
        /\ char_width = CeilDiv(MaxPresentX + 1, 2)
        /\ char_height = CeilDiv(MaxPresentY + 1, 4)
        /\ (MaxPresentX = 9 /\ MaxPresentY = 11) =>
              char_width = 5 /\ char_height = 3
        /\ \A key \in DOMAIN pixels :
              key[1] \div 2 \in 0..(char_width - 1)
                 /\ key[2] \div 4 \in 0..(char_height - 1)
        /\ RowsPrinted
              = SubSeq(RenderOf(pixels, max_x, max_y, use_bg), 1, char_y)
        /\ pc = "compose" => Len(line_chars) = char_x
        /\ pc = "done" => char_y = char_height

====
